---- MODULE Spec2Model ----
(***************************************************************************)
(* Model of the android-activity event bridge: the poll dispatcher         *)
(* (AndroidAppInner::poll_events), the shared state cache (config,         *)
(* native_window), the save/restore port (StateSaver::store,               *)
(* StateLoader::load) and the wake handle (AndroidAppWaker::wake), for     *)
(* both flavors (game_activity/mod.rs and native_activity/mod.rs), the     *)
(* input accessor (AndroidAppInner::input_events) and the cache accessors  *)
(* (config, native_window) called from another thread.                     *)
(*                                                                         *)
(* A user callback may return or panic; a panic unwinds through the call    *)
(* that invoked it.                                                        *)
(*                                                                         *)
(* poll_events is modelled step by step (pc is the control thread's        *)
(* position in it) because the user callback it invokes is re-entrant      *)
(* user code and because the order of its steps is what is specified.      *)
(***************************************************************************)
EXTENDS Integers, Sequences, FiniteSets, TLC

VARIABLES
    flavor,               \* "game" | "native": which mod.rs is compiled in
    pc,                   \* control thread position inside poll_events
    config,               \* AndroidAppInner.config (cache)
    native_window,        \* AndroidAppInner.native_window (cache), 0 = None
    app_config,           \* (*app_ptr).config, native control block
    app_window,           \* (*app_ptr).window, native control block, 0 = NULL
    savedState,           \* (*app_ptr).savedState, 0 = NULL
    savedStateSize,       \* (*app_ptr).savedStateSize
    heap,                 \* libc heap: address -> cell
    doubleFree,           \* libc::free was called on an address that is not live
    wakePending,          \* the looper's wake primitive has been signalled
    timeout,              \* poll_events argument
    timeout_milliseconds, \* local of poll_events
    id, fd, events, source, \* outputs of ALooper_pollAll
    cmd_i,                \* local of poll_events: code read from the control block
    cmd,                  \* local of poll_events: translated command
    event,                \* the PollEvent handed to the running callback
    loaded,               \* result of StateLoader::load in the running callback
    steps,                \* what this poll_events call has done so far, in order
    stored,               \* history: bytes last given to store, slot not written since
    lastWindowCmd,        \* history: last window command dispatched to the callback
    wakeOwed,             \* history: wake() was called while poll was blocked
    storeCalls,           \* history: store calls made by the running callback
    input_buffer,         \* local of input_events (game): android_input_buffer*, 0 = NULL
    keyEventsCount,       \* android_input_buffer.keyEventsCount
    motionEventsCount,    \* android_input_buffer.motionEventsCount
    inputQueue,           \* (*app_ptr).inputQueue (native), 0 = NULL
    queue,                \* events the AInputQueue holds (native)
    pos, count,           \* fields of the running events iterator (game)
    rd_pc,                \* reader thread: "idle", or the accessor it is inside
    rd_old,               \* reader thread: the cached value when it took the read guard
    raced,                \* the cached value was written while the reader was reading it
    seen,                 \* what the reader's last config()/native_window() returned
    held,                 \* the NativeWindowRef the reader thread keeps, 0 = none
    heldStale,            \* history: the surface of held has been terminated
    inFlight,             \* history: commands read and not yet given to post-exec
    misordered,           \* history: a command was surfaced or retired out of turn
    wguard,               \* the cache field whose write guard poll_events holds, or "none"
    cbSeen                \* what config()/native_window() returned to the running callback

vars == <<flavor, wguard, cbSeen, pc, config, native_window, app_config, app_window,
          savedState, savedStateSize, heap, doubleFree, wakePending,
          timeout, timeout_milliseconds, id, fd, events, source, cmd_i, cmd,
          event, loaded, steps, stored, lastWindowCmd, wakeOwed, storeCalls,
          input_buffer, keyEventsCount, motionEventsCount, inputQueue, queue,
          pos, count, rd_pc, rd_old, raced, seen, held, heldStale,
          inFlight, misordered, wguard, cbSeen>>

-----------------------------------------------------------------------------
(* Bounds of the model *)

MaxConfig == 2      \* configurations are 1..MaxConfig
MaxWindow == 2      \* window pointers are 1..MaxWindow, 0 is NULL
MaxAddr == 2        \* heap addresses are 1..MaxAddr, 0 is NULL
MaxLen == 2         \* longest byte sequence given to store
MaxStores == 2      \* store calls one callback makes at most
MaxKeys == 3        \* key events of one input frame, at most
MaxMotions == 2     \* motion events of one input frame, at most
MaxQueued == 2      \* events an input queue holds, at most

Configs == 1..MaxConfig
Windows == 1..MaxWindow
Addrs == 1..MaxAddr
Bytes == {0, 255}

RECURSIVE SeqsUpTo(_, _)
SeqsUpTo(S, n) ==
    IF n = 0 THEN {<<>>}
    ELSE LET shorter == SeqsUpTo(S, n - 1)
         IN shorter \cup {Append(s, x) : s \in {t \in shorter : Len(t) = n - 1}, x \in S}

StateInputs == SeqsUpTo(Bytes, MaxLen)

-----------------------------------------------------------------------------
(* Program constants (ffi bindings; the lines are where the source uses them) *)

ALOOPER_POLL_WAKE == -1
ALOOPER_POLL_CALLBACK == -2
ALOOPER_POLL_TIMEOUT == -3
ALOOPER_POLL_ERROR == -4
LOOPER_ID_MAIN == 1
LOOPER_ID_INPUT == 2
LOOPER_ID_USER == 3

APP_CMD_INPUT_CHANGED == 0
APP_CMD_INIT_WINDOW == 1
APP_CMD_TERM_WINDOW == 2
APP_CMD_WINDOW_RESIZED == 3
APP_CMD_WINDOW_REDRAW_NEEDED == 4
APP_CMD_CONTENT_RECT_CHANGED == 5
APP_CMD_GAINED_FOCUS == 6
APP_CMD_LOST_FOCUS == 7
APP_CMD_CONFIG_CHANGED == 8
APP_CMD_LOW_MEMORY == 9
APP_CMD_START == 10
APP_CMD_RESUME == 11
APP_CMD_SAVE_STATE == 12
APP_CMD_PAUSE == 13
APP_CMD_STOP == 14
APP_CMD_DESTROY == 15
APP_CMD_WINDOW_INSETS_CHANGED == 16

\* what android_app_read_cmd can hand back: every code of the table, -1 (no
\* data on the pipe) and a code outside the table
CmdCodes == -1 .. 17

\* results ALooper_pollAll can return: the four sentinels, another negative
\* value, the main channel, the input channel, a user identifier
PollIds == {ALOOPER_POLL_WAKE, ALOOPER_POLL_CALLBACK, ALOOPER_POLL_TIMEOUT,
            ALOOPER_POLL_ERROR, -5, LOOPER_ID_MAIN, LOOPER_ID_INPUT, LOOPER_ID_USER}

Fds == {7}
\* every combination of the four ALOOPER_EVENT_ bits the source decodes, and
\* masks with a bit no flag stands for
EventMasks == 0 .. 15 \cup {32}
DataPtrs == {0, 1}          \* 0 is the null pointer

-----------------------------------------------------------------------------
(* Durations and the wait argument *)

\* TLC's integers are 32 bits wide, a millisecond count (u128 in the source)
\* is not: a count is kept as two limbs, hi * Limb + lo with 0 <= lo < Limb
Limb == 2 ^ 16

\* std::time::Duration values offered to poll_events: zero, less than a
\* millisecond, seconds and a fraction, and the values around 2^31 and 2^32
\* milliseconds
Durations == {[secs |-> d[1], nanos |-> d[2]] :
                d \in {<<0, 0>>, <<0, 999999>>, <<2, 0>>, <<2, 647999999>>,
                       <<2147483, 647999999>>, <<2147483, 648000000>>,
                       <<4294967, 295000000>>, <<4294967, 296000000>>}}

NoTimeout == [some |-> FALSE, secs |-> 0, nanos |-> 0]
SomeTimeout(d) == [some |-> TRUE, secs |-> d.secs, nanos |-> d.nanos]
Timeouts == {NoTimeout} \cup {SomeTimeout(d) : d \in Durations}

\* Duration::as_millis: secs * 1000 + nanos / 1_000_000, as limbs
as_millis(d) ==
    LET low == (d.secs % Limb) * 1000 + d.nanos \div 1000000
    IN [hi |-> (d.secs \div Limb) * 1000 + low \div Limb, lo |-> low % Limb]

\* `x as i32` on a u128: keep the low 32 bits, read as two's complement
as_i32(x) ==
    LET h == x.hi % Limb
    IN IF h >= Limb \div 2 THEN (h - Limb) * Limb + x.lo ELSE h * Limb + x.lo

\* let timeout_milliseconds = if let Some(timeout) = timeout
\*     { timeout.as_millis() as i32 } else { -1 };
TimeoutMillis(t) == IF t.some THEN as_i32(as_millis(t)) ELSE -1

-----------------------------------------------------------------------------
(* Values *)

NoEvent == [type |-> "None", cmd |-> "", ident |-> 0, fd |-> 0, events |-> {}, data |-> 0]
SimpleEvent(t) == [NoEvent EXCEPT !.type = t]
MainEvent(c) == [NoEvent EXCEPT !.type = "Main", !.cmd = c]
FdEventOf(i, f, e, d) ==
    [type |-> "FdEvent", cmd |-> "", ident |-> i, fd |-> f, events |-> e, data |-> d]

NotCalled == [tag |-> "NotCalled", val |-> <<>>]
None == [tag |-> "None", val |-> <<>>]
Some(v) == [tag |-> "Some", val |-> v]

\* what config() / native_window() handed to the reader thread; before is the
\* cached value when the read guard was taken, after the one when it was dropped
NoRead == [of |-> "none", val |-> 0, before |-> 0, after |-> 0]
ReadOf(a, v, b, c) == [of |-> a, val |-> v, before |-> b, after |-> c]

FreeCell == [live |-> FALSE, data |-> <<>>, by |-> "none"]
HostState == <<255>>   \* what the hosting layer hands over at start-up, if anything

-----------------------------------------------------------------------------
(* The command table: `match cmd_i as u32 { ... }` *)

CommonCmd(c) ==
    CASE c = APP_CMD_INIT_WINDOW -> "InitWindow"
      [] c = APP_CMD_TERM_WINDOW -> "TerminateWindow"
      [] c = APP_CMD_WINDOW_RESIZED -> "WindowResized"
      [] c = APP_CMD_WINDOW_REDRAW_NEEDED -> "RedrawNeeded"
      [] c = APP_CMD_CONTENT_RECT_CHANGED -> "ContentRectChanged"
      [] c = APP_CMD_GAINED_FOCUS -> "GainedFocus"
      [] c = APP_CMD_LOST_FOCUS -> "LostFocus"
      [] c = APP_CMD_CONFIG_CHANGED -> "ConfigChanged"
      [] c = APP_CMD_LOW_MEMORY -> "LowMemory"
      [] c = APP_CMD_START -> "Start"
      [] c = APP_CMD_RESUME -> "Resume"
      [] c = APP_CMD_SAVE_STATE -> "SaveState"
      [] c = APP_CMD_PAUSE -> "Pause"
      [] c = APP_CMD_STOP -> "Stop"
      [] c = APP_CMD_DESTROY -> "Destroy"
      [] OTHER -> "unreachable"

\* game_activity: InputChanged is commented out, InsetsChanged is in the table
GameCmd(c) ==
    IF c = APP_CMD_WINDOW_INSETS_CHANGED THEN "InsetsChanged" ELSE CommonCmd(c)

\* NativeCmd with the InputChanged arm forgotten
NativeCmd_NoInputChanged(c) == CommonCmd(c)

\* NativeCmd swallowing LowMemory as well
NativeCmd_LowMemoryDropped(c) ==
    IF c \in {APP_CMD_INPUT_CHANGED, APP_CMD_LOW_MEMORY} THEN "None" ELSE CommonCmd(c)

\* native_activity: InputChanged => None, InsetsChanged is commented out
NativeCmd(c) ==
    IF c = APP_CMD_INPUT_CHANGED THEN "None" ELSE CommonCmd(c)

\* TranslateCmd with a code outside the table skipped instead of fatal
TranslateCmd_Lenient(fl, c) ==
    LET t == IF fl = "game" THEN GameCmd(c) ELSE NativeCmd(c)
    IN IF t = "unreachable" THEN "None" ELSE t

\* TranslateCmd surfacing the loss of focus as a gain of focus
TranslateCmd_FocusMerged(fl, c) ==
    IF c = APP_CMD_LOST_FOCUS THEN "GainedFocus"
    ELSE IF fl = "game" THEN GameCmd(c) ELSE NativeCmd(c)

TranslateCmd(fl, c) == IF fl = "game" THEN GameCmd(c) ELSE NativeCmd(c)

\* Carries handing a StateSaver to every command
Carries_SaverAlways(c) == "saver"

\* the capability a translated command carries to the callback:
\* Resume { loader: StateLoader { app: &self } },
\* SaveState { saver: StateSaver { app: &self } }
Carries(c) ==
    CASE c = "Resume" -> "loader"
      [] c = "SaveState" -> "saver"
      [] OTHER -> "none"

\* the running callback holds the capability its event brought: the event is
\* passed by value and borrows the application for the call only
Holds(p, ev, cap) == p = "in_callback" /\ ev.type = "Main" /\ Carries(ev.cmd) = cap

-----------------------------------------------------------------------------
(* The classification of the multiplexer result: `match id { ... }` *)

\* Classify with the error sentinel only logged
Classify_ErrorIgnored(fl, i) ==
    CASE i = ALOOPER_POLL_WAKE -> "Wake"
      [] i = ALOOPER_POLL_CALLBACK -> "CallbackSentinel"
      [] i = ALOOPER_POLL_TIMEOUT -> "Timeout"
      [] i >= 0 /\ i = LOOPER_ID_MAIN -> "Main"
      [] i >= 0 /\ i = LOOPER_ID_INPUT /\ fl = "native" -> "Input"
      [] i >= 0 /\ i # LOOPER_ID_MAIN /\ ~(i = LOOPER_ID_INPUT /\ fl = "native") -> "Custom"
      [] OTHER -> "Spurious"

\* Classify with the timeout sentinel reported as an error
Classify_TimeoutAsError(fl, i) ==
    CASE i = ALOOPER_POLL_WAKE -> "Wake"
      [] i = ALOOPER_POLL_CALLBACK -> "CallbackSentinel"
      [] i = ALOOPER_POLL_TIMEOUT -> "Error"
      [] i = ALOOPER_POLL_ERROR -> "Error"
      [] i >= 0 /\ i = LOOPER_ID_MAIN -> "Main"
      [] i >= 0 /\ i = LOOPER_ID_INPUT /\ fl = "native" -> "Input"
      [] i >= 0 /\ i # LOOPER_ID_MAIN /\ ~(i = LOOPER_ID_INPUT /\ fl = "native") -> "Custom"
      [] OTHER -> "Spurious"

\* Classify with the wake sentinel only logged
Classify_WakeIgnored(fl, i) ==
    CASE i = ALOOPER_POLL_CALLBACK -> "CallbackSentinel"
      [] i = ALOOPER_POLL_TIMEOUT -> "Timeout"
      [] i = ALOOPER_POLL_ERROR -> "Error"
      [] i >= 0 /\ i = LOOPER_ID_MAIN -> "Main"
      [] i >= 0 /\ i = LOOPER_ID_INPUT /\ fl = "native" -> "Input"
      [] i >= 0 /\ i # LOOPER_ID_MAIN /\ ~(i = LOOPER_ID_INPUT /\ fl = "native") -> "Custom"
      [] OTHER -> "Spurious"

\* Classify with the input-available channel forwarded as a wake-up
Classify_InputWakes(fl, i) ==
    CASE i = ALOOPER_POLL_WAKE -> "Wake"
      [] i = ALOOPER_POLL_CALLBACK -> "CallbackSentinel"
      [] i = ALOOPER_POLL_TIMEOUT -> "Timeout"
      [] i = ALOOPER_POLL_ERROR -> "Error"
      [] i >= 0 /\ i = LOOPER_ID_MAIN -> "Main"
      [] i >= 0 /\ i = LOOPER_ID_INPUT /\ fl = "native" -> "Wake"
      [] i >= 0 /\ i # LOOPER_ID_MAIN /\ ~(i = LOOPER_ID_INPUT /\ fl = "native") -> "Custom"
      [] OTHER -> "Spurious"

Classify(fl, i) ==
    CASE i = ALOOPER_POLL_WAKE -> "Wake"
      [] i = ALOOPER_POLL_CALLBACK -> "CallbackSentinel"
      [] i = ALOOPER_POLL_TIMEOUT -> "Timeout"
      [] i = ALOOPER_POLL_ERROR -> "Error"
      [] i >= 0 /\ i = LOOPER_ID_MAIN -> "Main"
      [] i >= 0 /\ i = LOOPER_ID_INPUT /\ fl = "native" -> "Input"
      [] i >= 0 /\ i # LOOPER_ID_MAIN /\ ~(i = LOOPER_ID_INPUT /\ fl = "native") -> "Custom"
      [] OTHER -> "Spurious"

\* FdEvent::from_bits: the flags of a mask, or "invalid" when a bit is unknown
FdEventBits == {<<"INPUT", 1>>, <<"OUTPUT", 2>>, <<"ERROR", 4>>, <<"HANGUP", 8>>}
HasBit(m, b) == (m \div b) % 2 = 1
KnownMask(m) == m >= 0 /\ m < 16
\* from_bits losing the hangup flag
from_bits_NoHangup(m) == {b[1] : b \in {x \in FdEventBits : x[1] # "HANGUP" /\ HasBit(m, x[2])}}

from_bits(m) == {b[1] : b \in {x \in FdEventBits : HasBit(m, x[2])}}

-----------------------------------------------------------------------------
(* The shared state cache side effect: `match cmd { ... }` after pre-exec *)

\* SyncedConfig with the ConfigChanged arm forgotten
SyncedConfig_Stale(c, cached, native) == cached

SyncedConfig(c, cached, native) == IF c = "ConfigChanged" THEN native ELSE cached

\* SyncedWindow with the TerminateWindow arm forgotten
SyncedWindow_NoClear(c, cached, native) == IF c = "InitWindow" THEN native ELSE cached

\* SyncedWindow dropping the surface on Pause as well
SyncedWindow_ClearOnPause(c, cached, native) ==
    CASE c = "InitWindow" -> native
      [] c \in {"TerminateWindow", "Pause"} -> 0
      [] OTHER -> cached

SyncedWindow(c, cached, native) ==
    CASE c = "InitWindow" -> native
      [] c = "TerminateWindow" -> 0
      [] OTHER -> cached

TouchesCache(c) == c \in {"ConfigChanged", "InitWindow", "TerminateWindow"}

\* the field, each behind its own RwLock, that a command writes
FieldOf(c) == IF c = "ConfigChanged" THEN "config" ELSE "window"

\* CanRead granting a read guard whatever the writer does
CanRead_NoExclusion(writing) == TRUE

\* RwLock::read: granted while no write guard is held
CanRead(writing) == ~writing

\* RwLock::write: granted while no read guard is held
CanWrite(reading) == ~reading

\* what a read that overlapped a write of the same field may return (a data
\* race): the old value, the new one, or a mixture of both
Torn == 0 - 1
ReadResults(old, new, race) == IF race THEN {old, new, Torn} ELSE {new}

-----------------------------------------------------------------------------
(* libc heap and the save-state slot *)

\* libc::free(p)
Free(h, p) == [h EXCEPT ![p] = FreeCell]

\* libc::malloc(n): NULL, or any address that is not live
Malloc(h) == {0} \cup {a \in Addrs : ~h[a].live}

\* ReleasePrevious with the free forgotten
ReleasePrevious_Leak(h, p) == h

\* store, lines 54-58: free any pre-existing state and empty the slot
ReleasePrevious(h, p) == IF p # 0 THEN Free(h, p) ELSE h

\* store, lines 70-75: copy the bytes into the new buffer
Install(h, buf, state) == [h EXCEPT ![buf] = [live |-> TRUE, data |-> state, by |-> "store"]]

\* LoadResult copying one byte too few
LoadResult_OffByOne(h, p, n) ==
    IF p # 0 /\ n > 0 THEN Some(SubSeq(h[p].data, 1, n - 1)) ELSE None

\* LoadResult with the length test forgotten
LoadResult_EmptyIsSome(h, p, n) ==
    IF p # 0 THEN Some(SubSeq(h[p].data, 1, n)) ELSE None

\* StateLoader::load
LoadResult(h, p, n) ==
    IF p # 0 /\ n > 0 THEN Some(SubSeq(h[p].data, 1, n)) ELSE None

-----------------------------------------------------------------------------
(* State *)

cacheVars == <<config, native_window>>
appVars == <<app_config, app_window>>
slotVars == <<savedState, savedStateSize, heap, doubleFree>>
pollOutputs == <<id, fd, events, source>>
timeoutVars == <<timeout, timeout_milliseconds>>
cmdVars == <<cmd_i, cmd>>
inputVars == <<input_buffer, keyEventsCount, motionEventsCount, inputQueue, queue,
               pos, count>>
readerVars == <<rd_pc, rd_old, raced, seen, held, heldStale>>
orderVars == <<inFlight, misordered>>

\* AndroidApp::from_ptr: the cache starts with a copy of the native
\* configuration and no window; the slot is empty or holds what the hosting
\* layer restored.
Init ==
    /\ flavor \in {"game", "native"}
    /\ pc = "idle"
    /\ app_config \in Configs
    /\ config = app_config
    /\ native_window = 0
    /\ app_window = 0
    /\ \/ /\ savedState = 0
          /\ savedStateSize = 0
          /\ heap = [a \in Addrs |-> FreeCell]
       \/ /\ savedState = 1
          /\ savedStateSize = Len(HostState)
          /\ heap = [a \in Addrs |->
                       IF a = 1 THEN [live |-> TRUE, data |-> HostState, by |-> "host"]
                       ELSE FreeCell]
    /\ doubleFree = FALSE
    /\ wakePending = FALSE
    /\ timeout = NoTimeout
    /\ timeout_milliseconds = 0
    /\ id = 0 /\ fd = 0 /\ events = 0 /\ source = 0
    /\ cmd_i = 0
    /\ cmd = ""
    /\ event = NoEvent
    /\ loaded = NotCalled
    /\ steps = <<>>
    /\ stored = NotCalled
    /\ lastWindowCmd = "none"
    /\ wakeOwed = FALSE
    /\ storeCalls = 0
    /\ input_buffer = 0
    /\ keyEventsCount = 0
    /\ motionEventsCount = 0
    /\ inputQueue = 0
    /\ queue = <<>>
    /\ pos = 0
    /\ count = 0
    /\ rd_pc = "idle"
    /\ rd_old = 0
    /\ raced = FALSE
    /\ seen = NoRead
    /\ held = 0
    /\ heldStale = FALSE
    /\ inFlight = <<>>
    /\ misordered = FALSE
    /\ wguard = "none"
    /\ cbSeen = NoRead

Log(kind, arg) == steps' = Append(steps, <<kind, arg>>)

\* how many entries of a kind a trace holds
Count(s, kind) == Cardinality({i \in 1 .. Len(s) : s[i][1] = kind})

\* panic!/unwrap/expect/unreachable!: the control thread stops here
Panic ==
    /\ pc' = "panicked"
    /\ UNCHANGED <<flavor, wguard, cbSeen, cacheVars, appVars, slotVars, wakePending, timeoutVars,
                   pollOutputs, cmdVars, event, loaded, steps, stored,
                   lastWindowCmd, orderVars, wakeOwed, storeCalls,
                   inputVars, readerVars>>

-----------------------------------------------------------------------------
(* The native loop: multiplexer and hooks *)

\* What a blocked ALooper_pollAll may return. A signalled wake makes it
\* return the wake sentinel; a negative wait argument never times out.
LooperResults(pending, wait) ==
    IF pending THEN {ALOOPER_POLL_WAKE}
    ELSE {r \in PollIds : r = ALOOPER_POLL_TIMEOUT => wait >= 0}

\* android_app_pre_exec_cmd: the native layer brings its own fields up to
\* date (the window for InitWindow, the configuration for ConfigChanged)
PreExecWindows(c, w) == IF c = APP_CMD_INIT_WINDOW THEN 0 .. MaxWindow ELSE {w}
PreExecConfigs(c, g) == IF c = APP_CMD_CONFIG_CHANGED THEN Configs ELSE {g}

\* android_app_post_exec_cmd: the native layer drops the window after
\* TerminateWindow
PostExecWindow(c, w) == IF c = APP_CMD_TERM_WINDOW THEN 0 ELSE w

\* android_app_post_exec_cmd: after SaveState the hosting layer may take the
\* buffer over, after Resume it releases the saved state
PostExecTakesState(c) ==
    CASE c = APP_CMD_SAVE_STATE -> {TRUE, FALSE}
      [] c = APP_CMD_RESUME -> {TRUE}
      [] OTHER -> {FALSE}

-----------------------------------------------------------------------------
(* AndroidAppWaker::wake, from any thread *)

wake ==
    /\ pc # "panicked"
    /\ wakePending' = TRUE
    /\ wakeOwed' = (wakeOwed \/ pc = "blocked")
    /\ UNCHANGED <<flavor, wguard, cbSeen, pc, cacheVars, appVars, slotVars, timeoutVars,
                   pollOutputs, cmdVars, event, loaded, steps, stored, lastWindowCmd, orderVars,
                   storeCalls,
                   inputVars, readerVars>>

-----------------------------------------------------------------------------
(* AndroidAppInner::poll_events *)

\* entry up to the call of ALooper_pollAll
poll_events(t) ==
    /\ pc = "idle"
    /\ timeout' = t
    /\ timeout_milliseconds' = TimeoutMillis(t)
    /\ pc' = "blocked"
    /\ steps' = <<<<"poll", "">>>>
    /\ UNCHANGED <<flavor, wguard, cbSeen, cacheVars, appVars, slotVars, wakePending, pollOutputs,
                   cmdVars, event, loaded, stored, lastWindowCmd, orderVars, wakeOwed, storeCalls,
                   inputVars, readerVars>>

\* ALooper_pollAll returns; the outputs are only written for identifiers >= 0
\* (fd and events are not read on the main channel)
ALooper_pollAll ==
    /\ pc = "blocked"
    /\ \E r \in LooperResults(wakePending, timeout_milliseconds) :
         /\ id' = r
         /\ wakePending' = IF r = ALOOPER_POLL_WAKE THEN FALSE ELSE wakePending
         /\ IF r < 0 THEN fd' = 0 /\ events' = 0 /\ source' = 0
            ELSE IF r = LOOPER_ID_MAIN
                 THEN fd' = 0 /\ events' = 0 /\ source' \in DataPtrs
                 ELSE fd' \in Fds /\ events' \in EventMasks /\ source' \in DataPtrs
    /\ pc' = "polled"
    /\ timeout' = NoTimeout
    /\ timeout_milliseconds' = 0
    /\ UNCHANGED <<flavor, wguard, cbSeen, cacheVars, appVars, slotVars, cmdVars, event, loaded,
                   steps, stored, lastWindowCmd, orderVars, wakeOwed, storeCalls,
                   inputVars, readerVars>>

\* callback(ev) is entered
Invoke(ev) ==
    /\ event' = ev
    /\ pc' = "in_callback"
    /\ Log("cb", IF ev.type = "Main" THEN ev.cmd ELSE ev.type)
    /\ lastWindowCmd' = IF ev.type = "Main" /\ ev.cmd \in {"InitWindow", "TerminateWindow"}
                        THEN ev.cmd ELSE lastWindowCmd
    /\ wakeOwed' = IF ev.type = "Wake" THEN FALSE ELSE wakeOwed
    /\ IF ev.type = "Main"
       THEN IF inFlight # <<>> /\ Head(inFlight).surfaced = ""
            THEN /\ inFlight' = <<[Head(inFlight) EXCEPT !.surfaced = ev.cmd]>> \o Tail(inFlight)
                 /\ misordered' = misordered
            ELSE /\ inFlight' = inFlight
                 /\ misordered' = TRUE
       ELSE UNCHANGED orderVars

\* The arms of `match id` and the read of the command are where the two
\* flavors differ: these actions take the flavor whose tables they apply.

\* the arms POLL_WAKE, POLL_TIMEOUT, POLL_ERROR
DispatchSentinelOf(fl) ==
    /\ pc = "polled"
    /\ Classify(fl, id) \in {"Wake", "Timeout", "Error"}
    /\ Invoke(SimpleEvent(Classify(fl, id)))
    /\ UNCHANGED <<flavor, wguard, cbSeen, cacheVars, appVars, slotVars, wakePending, timeoutVars,
                   pollOutputs, cmdVars, loaded, stored, storeCalls,
                   inputVars, readerVars>>

DispatchSentinel == DispatchSentinelOf(flavor)

\* Ignore reporting what it ignores to the callback as an error
Ignore_Reported ==
    /\ pc = "polled"
    /\ Classify(flavor, id) \in {"CallbackSentinel", "Spurious", "Input"}
    /\ Invoke(SimpleEvent("Error"))
    /\ UNCHANGED <<flavor, wguard, cbSeen, cacheVars, appVars, slotVars, wakePending, timeoutVars,
                   pollOutputs, cmdVars, loaded, stored, storeCalls,
                   inputVars, readerVars>>

\* the arms that only log: POLL_CALLBACK, other negative values, and (native
\* flavor) LOOPER_ID_INPUT; fd, events and source are not read again
IgnoreOf(fl) ==
    /\ pc = "polled"
    /\ Classify(fl, id) \in {"CallbackSentinel", "Spurious", "Input"}
    /\ pc' = "ret"
    /\ fd' = 0 /\ events' = 0 /\ source' = 0
    /\ UNCHANGED <<flavor, wguard, cbSeen, cacheVars, appVars, slotVars, wakePending, timeoutVars,
                   id, cmdVars, event, loaded, steps, stored,
                   lastWindowCmd, orderVars, wakeOwed, storeCalls,
                   inputVars, readerVars>>

Ignore == IgnoreOf(flavor)

\* the custom-source arm
DispatchFdEventOf(fl) ==
    /\ pc = "polled"
    /\ Classify(fl, id) = "Custom"
    /\ KnownMask(events)
    /\ Invoke(FdEventOf(id, fd, from_bits(events), source))
    /\ UNCHANGED <<flavor, wguard, cbSeen, cacheVars, appVars, slotVars, wakePending, timeoutVars,
                   pollOutputs, cmdVars, loaded, stored, storeCalls,
                   inputVars, readerVars>>

DispatchFdEvent == DispatchFdEventOf(flavor)

\* FdEvent::from_bits(..).expect(..) on a mask with an unknown bit
FdEventPanicOf(fl) ==
    /\ pc = "polled"
    /\ Classify(fl, id) = "Custom"
    /\ ~KnownMask(events)
    /\ Panic

FdEventPanic == FdEventPanicOf(flavor)

\* MainNullSourcePanic with the null payload only logged
MainNullSourcePanic_Ignored ==
    /\ pc = "polled"
    /\ Classify(flavor, id) = "Main"
    /\ source = 0
    /\ pc' = "ret"
    /\ UNCHANGED <<flavor, wguard, cbSeen, cacheVars, appVars, slotVars, wakePending, timeoutVars,
                   pollOutputs, cmdVars, event, loaded, steps, stored,
                   lastWindowCmd, orderVars, wakeOwed, storeCalls,
                   inputVars, readerVars>>

\* LOOPER_ID_MAIN with a null android_poll_source
MainNullSourcePanicOf(fl) ==
    /\ pc = "polled"
    /\ Classify(fl, id) = "Main"
    /\ source = 0
    /\ Panic

MainNullSourcePanic == MainNullSourcePanicOf(flavor)

\* ReadCmd taking two commands off the pipe and keeping the second
ReadCmd_Twice ==
    /\ pc = "polled"
    /\ Classify(flavor, id) = "Main"
    /\ source # 0
    /\ \E c \in CmdCodes :
         /\ TranslateCmd(flavor, c) # "unreachable"
         /\ cmd_i' = c
         /\ cmd' = TranslateCmd(flavor, c)
         /\ steps' = steps \o <<<<"read", APP_CMD_START>>, <<"read", c>>>>
         /\ inFlight' = inFlight \o <<[code |-> APP_CMD_START, surfaced |-> ""],
                                       [code |-> c, surfaced |-> ""]>>
    /\ pc' = "pre_exec"
    /\ UNCHANGED <<flavor, wguard, cbSeen, cacheVars, appVars, slotVars, wakePending, timeoutVars,
                   pollOutputs, event, loaded, stored, lastWindowCmd, misordered, wakeOwed, storeCalls,
                   inputVars, readerVars>>

\* android_app_read_cmd and the translation of the code
ReadCmdOf(fl) ==
    /\ pc = "polled"
    /\ Classify(fl, id) = "Main"
    /\ source # 0
    /\ \E c \in CmdCodes :
         /\ TranslateCmd(fl, c) # "unreachable"
         /\ cmd_i' = c
         /\ cmd' = TranslateCmd(fl, c)
         /\ Log("read", c)
         /\ inFlight' = Append(inFlight, [code |-> c, surfaced |-> ""])
    /\ pc' = "pre_exec"
    /\ UNCHANGED <<flavor, wguard, cbSeen, cacheVars, appVars, slotVars, wakePending, timeoutVars,
                   pollOutputs, event, loaded, stored, lastWindowCmd, misordered, wakeOwed, storeCalls,
                   inputVars, readerVars>>

ReadCmd == ReadCmdOf(flavor)

\* `_ => unreachable!()` for a code outside the table
ReadCmdUnreachableOf(fl) ==
    /\ pc = "polled"
    /\ Classify(fl, id) = "Main"
    /\ source # 0
    /\ \E c \in CmdCodes :
         /\ TranslateCmd(fl, c) = "unreachable"
         /\ cmd_i' = c
         /\ Log("read", c)
         /\ inFlight' = Append(inFlight, [code |-> c, surfaced |-> ""])
    /\ pc' = "panicked"
    /\ UNCHANGED <<flavor, wguard, cbSeen, cacheVars, appVars, slotVars, wakePending, timeoutVars,
                   pollOutputs, cmd, event, loaded, stored, lastWindowCmd, misordered, wakeOwed, storeCalls,
                   inputVars, readerVars>>

ReadCmdUnreachable == ReadCmdUnreachableOf(flavor)

\* ffi::android_app_pre_exec_cmd(app_ptr, cmd_i)
PreExec ==
    /\ pc = "pre_exec"
    /\ app_window' \in PreExecWindows(cmd_i, app_window)
    /\ app_config' \in PreExecConfigs(cmd_i, app_config)
    /\ Log("pre", cmd_i)
    /\ pc' = IF cmd = "None" THEN "post_exec" ELSE "sync"
    /\ UNCHANGED <<flavor, wguard, cbSeen, cacheVars, slotVars, wakePending, timeoutVars,
                   pollOutputs, cmdVars, event, loaded, stored, lastWindowCmd, orderVars, wakeOwed, storeCalls,
                   inputVars, readerVars>>

\* self.config.write() / self.native_window.write(): the right-hand side has
\* been evaluated, the write guard is taken once no reader holds the field
WriteLock ==
    /\ pc = "sync"
    /\ TouchesCache(cmd)
    /\ ~(cmd = "InitWindow" /\ app_window = 0)
    /\ CanWrite(rd_pc = FieldOf(cmd))
    /\ wguard' = FieldOf(cmd)
    /\ pc' = "write"
    /\ UNCHANGED <<flavor, cbSeen, cacheVars, appVars, slotVars, wakePending, timeoutVars,
                   pollOutputs, cmdVars, event, loaded, steps, stored, lastWindowCmd, orderVars,
                   wakeOwed, storeCalls, inputVars, readerVars>>

\* SyncCache with the write guard bound to a name that lives to the end of
\* the enclosing block, past the callback
SyncCache_GuardKept ==
    /\ \/ pc = "write"
       \/ pc = "sync" /\ ~TouchesCache(cmd)
    /\ config' = SyncedConfig(cmd, config, app_config)
    /\ native_window' = SyncedWindow(cmd, native_window, app_window)
    /\ raced' = (raced \/ (pc = "write" /\ rd_pc = FieldOf(cmd)))
    /\ IF TouchesCache(cmd) THEN Log("cache", cmd) ELSE UNCHANGED steps
    /\ pc' = "invoke"
    /\ UNCHANGED <<flavor, wguard, cbSeen, appVars, slotVars, wakePending, timeoutVars,
                   pollOutputs, cmdVars, event, loaded, stored, lastWindowCmd, orderVars, wakeOwed, storeCalls,
                   inputVars, rd_pc, rd_old, seen, held, heldStale>>

\* the cache side effect of ConfigChanged, InitWindow, TerminateWindow: the
\* value is replaced and the write guard dropped; `_ => {}` for the others
SyncCache ==
    /\ \/ pc = "write"
       \/ pc = "sync" /\ ~TouchesCache(cmd)
    /\ config' = SyncedConfig(cmd, config, app_config)
    /\ native_window' = SyncedWindow(cmd, native_window, app_window)
    /\ raced' = (raced \/ (pc = "write" /\ rd_pc = FieldOf(cmd)))
    /\ IF TouchesCache(cmd) THEN Log("cache", cmd) ELSE UNCHANGED steps
    /\ wguard' = "none"
    /\ pc' = "invoke"
    /\ UNCHANGED <<flavor, cbSeen, appVars, slotVars, wakePending, timeoutVars,
                   pollOutputs, cmdVars, event, loaded, stored, lastWindowCmd, orderVars, wakeOwed, storeCalls,
                   inputVars, rd_pc, rd_old, seen, held, heldStale>>

\* InitWindowPanic taking a null window for no window and going on
InitWindowPanic_StoresNone ==
    /\ pc = "sync"
    /\ cmd = "InitWindow" /\ app_window = 0
    /\ native_window' = 0
    /\ Log("cache", cmd)
    /\ pc' = "invoke"
    /\ UNCHANGED <<flavor, wguard, cbSeen, config, appVars, slotVars, wakePending,
                   timeoutVars, pollOutputs, cmdVars, event, loaded, stored,
                   lastWindowCmd, orderVars, wakeOwed, storeCalls,
                   inputVars, readerVars>>

\* NonNull::new(win_ptr).unwrap() on a null window
InitWindowPanic ==
    /\ pc = "sync"
    /\ cmd = "InitWindow" /\ app_window = 0
    /\ Panic

\* callback(PollEvent::Main(cmd))
DispatchMain ==
    /\ pc = "invoke"
    /\ Invoke(MainEvent(cmd))
    /\ UNCHANGED <<flavor, wguard, cbSeen, cacheVars, appVars, slotVars, wakePending, timeoutVars,
                   pollOutputs, cmdVars, loaded, stored, storeCalls,
                   inputVars, readerVars>>

\* CallbackPanic with a guard that calls the post-exec hook while unwinding
CallbackPanic_PostOnUnwind ==
    /\ pc = "in_callback"
    /\ pc' = "panicked"
    /\ IF event.type = "Main" THEN Log("post", cmd_i) ELSE UNCHANGED steps
    /\ UNCHANGED <<flavor, wguard, cbSeen, cacheVars, appVars, slotVars, wakePending,
                   timeoutVars, pollOutputs, cmdVars, event, loaded, stored,
                   lastWindowCmd, orderVars, wakeOwed, storeCalls,
                   inputVars, readerVars>>

\* the callback panics: nothing in poll_events catches the unwinding and no
\* value with a Drop is live, so the stack unwinds straight through it
CallbackPanic ==
    /\ pc = "in_callback"
    /\ Panic

\* CallbackReturn with the post-exec hook forgotten
CallbackReturn_SkipPostExec ==
    /\ pc = "in_callback"
    /\ pc' = "ret"
    /\ event' = NoEvent
    /\ loaded' = NotCalled
    /\ storeCalls' = 0
    /\ cbSeen' = NoRead
    /\ fd' = 0 /\ events' = 0 /\ source' = 0
    /\ UNCHANGED <<flavor, wguard, cacheVars, appVars, slotVars, wakePending, timeoutVars,
                   id, cmdVars, steps, stored, lastWindowCmd, orderVars, wakeOwed,
                   inputVars, readerVars>>

\* the callback returns; fd, events and source are not read again
CallbackReturn ==
    /\ pc = "in_callback"
    /\ pc' = IF event.type = "Main" THEN "post_exec" ELSE "ret"
    /\ event' = NoEvent
    /\ loaded' = NotCalled
    /\ storeCalls' = 0
    /\ cbSeen' = NoRead
    /\ fd' = 0 /\ events' = 0 /\ source' = 0
    /\ UNCHANGED <<flavor, wguard, cacheVars, appVars, slotVars, wakePending, timeoutVars,
                   id, cmdVars, steps, stored, lastWindowCmd, orderVars, wakeOwed,
                   inputVars, readerVars>>

\* ffi::android_app_post_exec_cmd(app_ptr, cmd_i)
PostExec ==
    /\ pc = "post_exec"
    /\ app_window' = PostExecWindow(cmd_i, app_window)
    /\ \E take \in PostExecTakesState(cmd_i) :
         IF take /\ savedState # 0
         THEN /\ heap' = Free(heap, savedState)
              /\ savedState' = 0
              /\ savedStateSize' = 0
              /\ stored' = NotCalled
         ELSE UNCHANGED <<heap, savedState, savedStateSize, stored>>
    /\ heldStale' = (heldStale \/ (cmd_i = APP_CMD_TERM_WINDOW /\ held # 0 /\ held = app_window))
    /\ Log("post", cmd_i)
    /\ inFlight' = IF inFlight # <<>> THEN Tail(inFlight) ELSE inFlight
    /\ misordered' = (misordered \/ inFlight = <<>> \/ Head(inFlight).code # cmd_i)
    /\ pc' = "ret"
    /\ UNCHANGED <<flavor, wguard, cbSeen, cacheVars, app_config, doubleFree, wakePending, timeoutVars,
                   pollOutputs, cmdVars, event, loaded, lastWindowCmd, wakeOwed, storeCalls,
                   inputVars, rd_pc, rd_old, raced, seen, held>>

\* poll_events returns to its caller
Return ==
    /\ pc = "ret"
    /\ pc' = "idle"
    /\ id' = 0 /\ fd' = 0 /\ events' = 0 /\ source' = 0
    /\ cmd_i' = 0
    /\ cmd' = ""
    /\ steps' = <<>>
    /\ UNCHANGED <<flavor, wguard, cbSeen, cacheVars, appVars, slotVars, wakePending, timeoutVars,
                   event, loaded, stored, lastWindowCmd, orderVars, wakeOwed, storeCalls,
                   inputVars, readerVars>>

-----------------------------------------------------------------------------
(* StateSaver::store and StateLoader::load, called by the running callback *)

\* store(state) returns: the previous buffer is freed, a new one installed
store(state) ==
    /\ Holds(pc, event, "saver")
    /\ storeCalls < MaxStores
    /\ storeCalls' = storeCalls + 1
    /\ LET h1 == ReleasePrevious(heap, savedState)
       IN \E buf \in Malloc(h1) :
            /\ buf # 0
            /\ doubleFree' = (doubleFree \/ (savedState # 0 /\ ~heap[savedState].live))
            /\ heap' = Install(h1, buf, state)
            /\ savedState' = buf
            /\ savedStateSize' = Len(state)
    /\ stored' = Some(state)
    /\ UNCHANGED <<flavor, wguard, cbSeen, pc, cacheVars, appVars, wakePending, timeoutVars,
                   pollOutputs, cmdVars, event, loaded, steps, lastWindowCmd, orderVars, wakeOwed,
                   inputVars, readerVars>>

\* storeAllocPanic with the slot emptied only after a successful allocation
storeAllocPanic_DanglingSlot ==
    /\ Holds(pc, event, "saver")
    /\ storeCalls < MaxStores
    /\ 0 \in Malloc(ReleasePrevious(heap, savedState))
    /\ doubleFree' = (doubleFree \/ (savedState # 0 /\ ~heap[savedState].live))
    /\ heap' = ReleasePrevious(heap, savedState)
    /\ stored' = NotCalled
    /\ pc' = "panicked"
    /\ UNCHANGED <<flavor, wguard, cbSeen, cacheVars, appVars, wakePending, timeoutVars,
                   savedState, savedStateSize,
                   pollOutputs, cmdVars, event, loaded, steps, lastWindowCmd, orderVars,
                   wakeOwed, storeCalls, inputVars, readerVars>>

\* store(state) panics: malloc returned NULL after the slot was emptied
storeAllocPanic ==
    /\ Holds(pc, event, "saver")
    /\ storeCalls < MaxStores
    /\ 0 \in Malloc(ReleasePrevious(heap, savedState))
    /\ doubleFree' = (doubleFree \/ (savedState # 0 /\ ~heap[savedState].live))
    /\ heap' = ReleasePrevious(heap, savedState)
    /\ savedState' = 0
    /\ savedStateSize' = 0
    /\ stored' = NotCalled
    /\ pc' = "panicked"
    /\ UNCHANGED <<flavor, wguard, cbSeen, cacheVars, appVars, wakePending, timeoutVars,
                   pollOutputs, cmdVars, event, loaded, steps, lastWindowCmd, orderVars, wakeOwed, storeCalls,
                   inputVars, readerVars>>

load ==
    /\ Holds(pc, event, "loader")
    /\ loaded' = LoadResult(heap, savedState, savedStateSize)
    /\ UNCHANGED <<flavor, wguard, cbSeen, pc, cacheVars, appVars, slotVars, wakePending, timeoutVars,
                   pollOutputs, cmdVars, event, steps, stored, lastWindowCmd, orderVars, wakeOwed, storeCalls,
                   inputVars, readerVars>>

-----------------------------------------------------------------------------
(* AndroidAppInner::config and AndroidAppInner::native_window *)

Cached(f) == IF f = "config" THEN config ELSE native_window

\* the running callback calls config() or native_window() on the control
\* thread: the read guard is taken, the value copied, the guard dropped
CallbackRead(f) ==
    /\ pc = "in_callback"
    /\ CanRead(wguard = f)
    /\ cbSeen' = ReadOf(f, Cached(f), Cached(f), Cached(f))
    /\ UNCHANGED <<flavor, wguard, pc, cacheVars, appVars, slotVars, wakePending, timeoutVars,
                   pollOutputs, cmdVars, event, loaded, steps, stored, lastWindowCmd,
                   orderVars, wakeOwed, storeCalls, inputVars, readerVars>>

(* ... and called by a thread other than the control thread *)

\* NativeWindowRef::new(window): an owned handle to the same surface, which
\* borrows neither the cache nor the read guard (None stays None)
NativeWindowRef_new(window) == window

restOfReader == <<flavor, wguard, cbSeen, pc, cacheVars, appVars, slotVars, wakePending, timeoutVars,
                  pollOutputs, cmdVars, event, loaded, steps, stored, lastWindowCmd, orderVars,
                  wakeOwed, storeCalls, inputVars>>

\* self.config.read().unwrap() / self.native_window.read().unwrap(): the read
\* guard is taken and the copy of the value begins
ReadLock(f) ==
    /\ rd_pc = "idle"
    /\ CanRead(wguard = f)
    /\ rd_pc' = f
    /\ rd_old' = Cached(f)
    /\ raced' = FALSE
    /\ seen' = NoRead
    /\ UNCHANGED <<restOfReader, held, heldStale>>

\* .clone() / NativeWindowRef::new(window) is done, the guard is dropped and
\* the accessor returns; the thread keeps the NativeWindowRef it was given
ReadReturn ==
    /\ rd_pc # "idle"
    /\ \E v \in ReadResults(rd_old, Cached(rd_pc), raced) :
         /\ seen' = ReadOf(rd_pc, v, rd_old, Cached(rd_pc))
         /\ IF rd_pc = "window"
            THEN held' = NativeWindowRef_new(v) /\ heldStale' = FALSE
            ELSE UNCHANGED <<held, heldStale>>
    /\ rd_pc' = "idle"
    /\ rd_old' = 0
    /\ raced' = FALSE
    /\ UNCHANGED restOfReader

\* the thread drops the NativeWindowRef it kept
DropRef ==
    /\ held # 0
    /\ held' = 0
    /\ heldStale' = FALSE
    /\ UNCHANGED <<restOfReader, rd_pc, rd_old, raced, seen>>

ReaderStep ==
    \/ \E f \in {"config", "window"} : ReadLock(f)
    \/ ReadReturn
    \/ DropRef

-----------------------------------------------------------------------------
(* AndroidAppInner::input_events, on the control thread between polls *)

InputKinds == {"Key", "Motion"}

\* the events an AInputQueue may hold: <<kind, arrival number>>, in arrival order
QueueInputs ==
    UNION {{[i \in 1 .. n |-> <<k[i], i>>] : k \in [1 .. n -> InputKinds]} : n \in 0 .. MaxQueued}

\* Available with the null test forgotten
Available_Unchecked(ptr) == TRUE

\* `if input_buffer == ptr::null_mut() { return; }` and
\* `if (*app_ptr).inputQueue == ptr::null_mut() { return; }`
Available(ptr) == ptr # 0

\* `(*self.ptr.as_ptr()).field`: the field, or anything at all through a null
\* pointer
Deref(ptr, v, anything) == IF ptr # 0 THEN {v} ELSE anything

\* HasNext yielding the record after the last one too
HasNext_Inclusive(p, n) == p <= n

\* Iterator::next: `if self.pos < self.count`
HasNext(p, n) == p < n

inputLocals == <<input_buffer, inputQueue, pos, count>>
restOfInput == <<flavor, wguard, cbSeen, cacheVars, appVars, slotVars, wakePending, timeoutVars,
                 pollOutputs, cmdVars, event, loaded, stored, lastWindowCmd, orderVars,
                 wakeOwed, storeCalls, readerVars>>

\* entry of input_events
input_events ==
    /\ pc = "idle"
    /\ pc' = "acquire"
    /\ steps' = <<<<"input", "">>>>
    /\ UNCHANGED <<restOfInput, inputVars>>

\* game: ffi::android_app_swap_input_buffers and the null test; the native
\* layer hands over a frame of k key and m motion events, or nothing
swap_input_buffers ==
    /\ pc = "acquire" /\ flavor = "game"
    /\ \E ptr \in {0, 1}, k \in 0 .. MaxKeys, m \in 0 .. MaxMotions :
         /\ input_buffer' = ptr
         /\ keyEventsCount' = IF ptr = 0 THEN 0 ELSE k
         /\ motionEventsCount' = IF ptr = 0 THEN 0 ELSE m
         /\ Log("swap", <<ptr, keyEventsCount', motionEventsCount'>>)
         /\ pc' = IF Available(ptr) THEN "keys_iter" ELSE "input_ret"
    /\ UNCHANGED <<restOfInput, inputQueue, queue, pos, count>>

\* InputBuffer::key_events_iter
key_events_iter ==
    /\ pc = "keys_iter"
    /\ pos' = 0
    /\ count' \in Deref(input_buffer, keyEventsCount, 0 .. MaxKeys)
    /\ pc' = "keys"
    /\ UNCHANGED <<restOfInput, steps, input_buffer, keyEventsCount, motionEventsCount,
                   inputQueue, queue>>

\* KeyEventsIterator::next yields keyEvents[pos]; callback(&InputEvent::KeyEvent(..))
KeyNext ==
    /\ pc = "keys" /\ HasNext(pos, count)
    /\ Log("cb", <<"Key", pos>>)
    /\ pos' = pos + 1
    /\ pc' = "key_cb"
    /\ UNCHANGED <<restOfInput, input_buffer, keyEventsCount, motionEventsCount,
                   inputQueue, queue, count>>

\* KeyEventsIterator::next yields None: the first loop ends
KeysDone ==
    /\ pc = "keys" /\ ~HasNext(pos, count)
    /\ pc' = "motions_iter"
    /\ UNCHANGED <<restOfInput, steps, inputVars>>

\* InputBuffer::motion_events_iter
motion_events_iter ==
    /\ pc = "motions_iter"
    /\ pos' = 0
    /\ count' \in Deref(input_buffer, motionEventsCount, 0 .. MaxMotions)
    /\ pc' = "motions"
    /\ UNCHANGED <<restOfInput, steps, input_buffer, keyEventsCount, motionEventsCount,
                   inputQueue, queue>>

\* MotionEventsIterator::next yields motionEvents[pos];
\* callback(&InputEvent::MotionEvent(..))
MotionNext ==
    /\ pc = "motions" /\ HasNext(pos, count)
    /\ Log("cb", <<"Motion", pos>>)
    /\ pos' = pos + 1
    /\ pc' = "motion_cb"
    /\ UNCHANGED <<restOfInput, input_buffer, keyEventsCount, motionEventsCount,
                   inputQueue, queue, count>>

\* MotionEventsIterator::next yields None: the second loop ends, buf goes out
\* of scope
MotionsDone ==
    /\ pc = "motions" /\ ~HasNext(pos, count)
    /\ pc' = "drop"
    /\ UNCHANGED <<restOfInput, steps, inputVars>>

\* the input callback returns
InputCallbackReturn ==
    /\ pc \in {"key_cb", "motion_cb", "queue_cb"}
    /\ pc' = CASE pc = "key_cb" -> "keys"
               [] pc = "motion_cb" -> "motions"
               [] pc = "queue_cb" -> "finish"
    /\ UNCHANGED <<restOfInput, steps, inputVars>>

\* the input callback panics: the stack unwinds through input_events, which
\* drops buf (game); the InputQueue wrapper (native) has nothing to drop
InputCallbackPanic ==
    /\ pc \in {"key_cb", "motion_cb", "queue_cb"}
    /\ pc' = IF pc = "queue_cb" THEN "panicked" ELSE "unwind"
    /\ Log("panic", "")
    /\ UNCHANGED <<restOfInput, inputVars>>

\* DropInputBuffer as a release that only the normal exit reaches
DropInputBuffer_NotOnUnwind ==
    /\ pc \in {"drop", "unwind"}
    /\ keyEventsCount' = IF pc = "drop" THEN 0 ELSE keyEventsCount
    /\ motionEventsCount' = IF pc = "drop" THEN 0 ELSE motionEventsCount
    /\ IF pc = "drop" THEN Log("clear", "") ELSE UNCHANGED steps
    /\ pc' = IF pc = "drop" THEN "input_ret" ELSE "panicked"
    /\ UNCHANGED <<restOfInput, input_buffer, inputQueue, queue, pos, count>>

\* impl Drop for InputBuffer: android_app_clear_motion_events and
\* android_app_clear_key_events
DropInputBuffer ==
    /\ pc \in {"drop", "unwind"}
    /\ keyEventsCount' = 0
    /\ motionEventsCount' = 0
    /\ Log("clear", "")
    /\ pc' = IF pc = "drop" THEN "input_ret" ELSE "panicked"
    /\ UNCHANGED <<restOfInput, input_buffer, inputQueue, queue, pos, count>>

\* native: the test of (*app_ptr).inputQueue; the queue holds what has arrived
InputQueueCheck ==
    /\ pc = "acquire" /\ flavor = "native"
    /\ \E ptr \in {0, 1}, q \in QueueInputs :
         /\ inputQueue' = ptr
         /\ queue' = IF ptr = 0 THEN <<>> ELSE q
         /\ Log("queue", <<ptr, Len(queue')>>)
         /\ pc' = IF Available(ptr) THEN "get" ELSE "input_ret"
    /\ UNCHANGED <<restOfInput, input_buffer, keyEventsCount, motionEventsCount, pos, count>>

\* queue.get_event() yields an event and queue.pre_dispatch(event) either
\* keeps it for the input method or hands it on to the callback
GetEvent ==
    /\ pc = "get"
    /\ \E q \in Deref(inputQueue, queue, QueueInputs) :
         /\ q # <<>>
         /\ \E handed \in {TRUE, FALSE} :
              IF handed
              THEN /\ queue' = q
                   /\ Log("cb", Head(q))
                   /\ pc' = "queue_cb"
              ELSE /\ queue' = Tail(q)
                   /\ Log("predispatched", Head(q))
                   /\ pc' = "get"
    /\ UNCHANGED <<restOfInput, input_buffer, keyEventsCount, motionEventsCount,
                   inputQueue, pos, count>>

\* QueueDrained with a get_event that blocks on an empty queue instead of
\* yielding None: the loop has no way out
QueueDrained_Waits ==
    /\ pc = "get"
    /\ FALSE
    /\ pc' = "input_ret"
    /\ UNCHANGED <<restOfInput, steps, inputVars>>

\* queue.get_event() yields None: the loop ends
QueueDrained ==
    /\ pc = "get"
    /\ <<>> \in Deref(inputQueue, queue, QueueInputs)
    /\ pc' = "input_ret"
    /\ UNCHANGED <<restOfInput, steps, inputVars>>

\* FinishEvent with the event dropped from the queue but never finished
FinishEvent_Skipped ==
    /\ pc = "finish"
    /\ queue' = Tail(queue)
    /\ pc' = "get"
    /\ UNCHANGED <<restOfInput, steps, input_buffer, keyEventsCount, motionEventsCount,
                   inputQueue, pos, count>>

\* queue.finish_event(event, true): the second argument is `handled`
FinishEvent ==
    /\ pc = "finish"
    /\ Log("finish", <<Head(queue), TRUE>>)
    /\ queue' = Tail(queue)
    /\ pc' = "get"
    /\ UNCHANGED <<restOfInput, input_buffer, keyEventsCount, motionEventsCount,
                   inputQueue, pos, count>>

\* the arrival number the next event put on the AInputQueue gets
NextArrival ==
    IF queue # <<>> THEN queue[Len(queue)][2] + 1
    ELSE Count(steps, "predispatched") + Count(steps, "finish") + 1

\* the input thread of the hosting layer puts a new event on the AInputQueue
\* while input_events is working through it
InputArrives ==
    /\ flavor = "native"
    /\ pc \in {"get", "queue_cb", "finish"}
    /\ inputQueue # 0
    /\ NextArrival <= MaxQueued
    /\ \E k \in InputKinds : queue' = Append(queue, <<k, NextArrival>>)
    /\ UNCHANGED <<restOfInput, pc, steps, input_buffer, keyEventsCount, motionEventsCount,
                   inputQueue, pos, count>>

\* input_events returns to its caller
InputReturn ==
    /\ pc = "input_ret"
    /\ pc' = "idle"
    /\ input_buffer' = 0 /\ inputQueue' = 0
    /\ queue' = <<>>
    /\ pos' = 0 /\ count' = 0
    /\ steps' = <<>>
    /\ UNCHANGED <<restOfInput, keyEventsCount, motionEventsCount>>

InputStep ==
    \/ input_events
    \/ swap_input_buffers
    \/ key_events_iter
    \/ KeyNext
    \/ KeysDone
    \/ motion_events_iter
    \/ MotionNext
    \/ MotionsDone
    \/ InputCallbackReturn
    \/ InputCallbackPanic
    \/ DropInputBuffer
    \/ InputQueueCheck
    \/ GetEvent
    \/ QueueDrained
    \/ FinishEvent
    \/ InputArrives
    \/ InputReturn

-----------------------------------------------------------------------------
(* Specifications *)

ControlStep ==
    \/ ALooper_pollAll
    \/ DispatchSentinel
    \/ Ignore
    \/ DispatchFdEvent
    \/ FdEventPanic
    \/ MainNullSourcePanic
    \/ ReadCmd
    \/ ReadCmdUnreachable
    \/ PreExec
    \/ WriteLock
    \/ SyncCache
    \/ InitWindowPanic
    \/ DispatchMain
    \/ CallbackReturn
    \/ PostExec
    \/ Return

Next ==
    \/ \E t \in Timeouts : poll_events(t)
    \/ ControlStep
    \/ \E state \in StateInputs : store(state)
    \/ storeAllocPanic
    \/ load
    \/ wake

Spec == Init /\ [][Next]_vars

\* The control thread keeps running once it is inside poll_events, the user
\* callback returns, and the looper returns from a blocked poll once its wake
\* primitive is signalled. Nothing obliges the application to call
\* poll_events again, nor the looper to return without a wake.
WakeReturn == wakePending /\ ALooper_pollAll

InsideStep ==
    \/ DispatchSentinel
    \/ Ignore
    \/ DispatchFdEvent
    \/ ReadCmd
    \/ PreExec
    \/ WriteLock
    \/ SyncCache
    \/ DispatchMain
    \/ CallbackReturn
    \/ PostExec
    \/ Return

FairSpec == Spec /\ WF_vars(WakeReturn) /\ WF_vars(InsideStep)

\* The control thread polling while another thread reads the cache. The
\* save-state slot, the timeout and the wake handle touch nothing the reader
\* uses and are left out here.
ThreadsNext ==
    \/ poll_events(NoTimeout)
    \/ ControlStep
    \/ \E f \in {"config", "window"} : CallbackRead(f)
    \/ ReaderStep

ThreadsSpec == Init /\ [][ThreadsNext]_vars

\* The control thread reading input frames: input_events touches none of the
\* state poll_events works on, and runs on the same thread between polls.
InputSpec == Init /\ [][InputStep]_vars

\* What the control thread does by itself inside input_events once the
\* callback has returned: everything but the entry (the application's
\* choice), a panic of the callback and the arrival of input.
InputProgress ==
    \/ swap_input_buffers
    \/ key_events_iter
    \/ KeyNext
    \/ KeysDone
    \/ motion_events_iter
    \/ MotionNext
    \/ MotionsDone
    \/ InputCallbackReturn
    \/ DropInputBuffer
    \/ InputQueueCheck
    \/ GetEvent
    \/ QueueDrained
    \/ FinishEvent
    \/ InputReturn

\* The control thread keeps running inside input_events and the callback
\* terminates (it returns, unless it panics).
InputFairSpec == InputSpec /\ WF_vars(InputProgress)

\* Everything the control thread can do with the application: polling with
\* no timeout or a zero one, a callback that returns or panics, the
\* save-state port, the wake handle and input_events between polls.
WholeNext ==
    \/ \E t \in {NoTimeout, SomeTimeout([secs |-> 0, nanos |-> 0])} : poll_events(t)
    \/ ControlStep
    \/ CallbackPanic
    \/ \E state \in StateInputs : store(state)
    \/ storeAllocPanic
    \/ load
    \/ wake
    \/ InputStep

WholeSpec == Init /\ [][WholeNext]_vars

-----------------------------------------------------------------------------
(* Claims *)

IsPrefix(s, t) == Len(s) <= Len(t) /\ SubSeq(t, 1, Len(s)) = s
Calling == {"pre_exec", "sync", "invoke", "in_callback", "post_exec", "ret"}
CacheCommands == {"ConfigChanged", "InitWindow", "TerminateWindow"}

\* what a poll_events call on a recognized, surfaced command has to do, in order
ExpectedSteps(code, name) ==
    <<<<"poll", "">>, <<"read", code>>, <<"pre", code>>>>
    \o (IF name \in CacheCommands THEN <<<<"cache", name>>>> ELSE <<>>)
    \o <<<<"cb", name>>, <<"post", code>>>>

\* C1: when the multiplexer result is the main channel with a recognized,
\* non-suppressed command, the call does pre-exec, cache update (only for
\* ConfigChanged, InitWindow, TerminateWindow), callback with Main(command),
\* post-exec, in this order and each once: at every point of the call what it
\* has done is a prefix of that sequence, the callback is running exactly when
\* the prefix ends with it, and a call that returns has done all of it.
C1_StrictOrder ==
    (pc \in Calling /\ id = LOOPER_ID_MAIN /\ cmd \notin {"", "None"}) =>
        LET exp == ExpectedSteps(cmd_i, cmd)
        IN /\ IsPrefix(steps, exp)
           /\ pc = "in_callback" => steps[Len(steps)] = <<"cb", cmd>> /\ event = MainEvent(cmd)
           /\ pc = "post_exec" => steps[Len(steps)] = <<"cb", cmd>>
           /\ pc = "ret" => steps = exp

C1_Witness ==
    /\ pc = "ret"
    /\ id = LOOPER_ID_MAIN
    /\ steps = ExpectedSteps(APP_CMD_CONFIG_CHANGED, "ConfigChanged")

\* C2: when the callback runs with a cache-touching command the cache already
\* holds the new value: config() is the control block's configuration for
\* ConfigChanged, native_window() is Some of the control block's window for
\* InitWindow and None for TerminateWindow.
C2_CacheBeforeCallback ==
    (pc = "in_callback" /\ event.type = "Main") =>
        /\ event.cmd = "ConfigChanged" => config = app_config
        /\ event.cmd = "InitWindow" => native_window # 0 /\ native_window = app_window
        /\ event.cmd = "TerminateWindow" => native_window = 0

C2_Witness ==
    /\ pc = "in_callback"
    /\ event = MainEvent("ConfigChanged")
    /\ config = 2
    /\ native_window = 1

\* C3: between poll_events calls native_window() is Some exactly when an
\* InitWindow has been dispatched and no TerminateWindow since; it is None
\* before the first InitWindow.
C3_WindowIffInit ==
    pc = "idle" => ((native_window # 0) <=> (lastWindowCmd = "InitWindow"))

C3_Witness == pc = "idle" /\ native_window # 0 /\ lastWindowCmd = "InitWindow"

\* C4: a wake() made while poll_events is blocked in the multiplexer leads to
\* a Wake event being handed to the user callback.
C4_NoLostWake == wakeOwed ~> (pc = "in_callback" /\ event.type = "Wake")

C4_Witness == pc = "in_callback" /\ event.type = "Wake" /\ wakePending

\* C5: a poll_events call that returns has invoked the callback at most once,
\* and not at all only for a suppressed internal command, the input-available
\* channel, the callback-source sentinel or an unrecognized negative code.
C5_AtMostOneCallback ==
    /\ Count(steps, "cb") <= 1
    /\ (pc = "ret" /\ Count(steps, "cb") = 0) =>
          \/ id = ALOOPER_POLL_CALLBACK
          \/ id < 0 /\ id \notin {ALOOPER_POLL_WAKE, ALOOPER_POLL_TIMEOUT, ALOOPER_POLL_ERROR}
          \/ flavor = "native" /\ id = LOOPER_ID_INPUT
          \/ id = LOOPER_ID_MAIN /\ Count(steps, "read") = 1
                /\ <<"read", APP_CMD_INPUT_CHANGED>> = steps[2]

C5_Witness ==
    /\ pc = "ret"
    /\ Count(steps, "cb") = 0
    /\ id = LOOPER_ID_MAIN
    /\ steps = <<<<"poll", "">>, <<"read", APP_CMD_INPUT_CHANGED>>,
                 <<"pre", APP_CMD_INPUT_CHANGED>>, <<"post", APP_CMD_INPUT_CHANGED>>>>

SentinelName(i) ==
    CASE i = ALOOPER_POLL_WAKE -> "Wake"
      [] i = ALOOPER_POLL_TIMEOUT -> "Timeout"
      [] i = ALOOPER_POLL_ERROR -> "Error"

\* C6: the wake, timeout and error sentinels yield exactly a Wake, Timeout and
\* Error callback; no command is read, no hook runs, and the call returns
\* normally.
C6_Sentinels ==
    id \in {ALOOPER_POLL_WAKE, ALOOPER_POLL_TIMEOUT, ALOOPER_POLL_ERROR} =>
        /\ pc \in {"polled", "in_callback", "ret"}
        /\ pc = "polled" => steps = <<<<"poll", "">>>>
        /\ pc = "in_callback" => event = SimpleEvent(SentinelName(id))
        /\ pc \in {"in_callback", "ret"} =>
              steps = <<<<"poll", "">>, <<"cb", SentinelName(id)>>>>
        /\ Count(steps, "read") = 0 /\ cmd = ""

C6_Witness ==
    /\ pc = "ret"
    /\ id = ALOOPER_POLL_ERROR
    /\ steps = <<<<"poll", "">>, <<"cb", "Error">>>>

\* the whole number of milliseconds of a duration, as limbs
WholeMillis(d) ==
    LET low == (d.secs % Limb) * 1000 + d.nanos \div 1000000
    IN [hi |-> (d.secs \div Limb) * 1000 + low \div Limb, lo |-> low % Limb]

\* a 32-bit wait argument w against a millisecond count m
WaitEquals(w, m) == m.hi < Limb \div 2 /\ w = m.hi * Limb + m.lo
WaitAtMost(w, m) == m.hi >= Limb \div 2 \/ w <= m.hi * Limb + m.lo

\* C7: each poll_events call makes exactly one multiplexer call, and the wait
\* argument is -1 for None and the whole number of milliseconds of d for
\* Some(d).
C7_OneCallCorrectWait ==
    /\ pc \in Calling \cup {"blocked", "polled"} => Count(steps, "poll") = 1
    /\ pc = "blocked" =>
          IF timeout.some THEN WaitEquals(timeout_milliseconds, WholeMillis(timeout))
          ELSE timeout_milliseconds = -1

\* C8: for every duration d the wait argument of poll_events(Some(d)) is
\* non-negative and not greater than d in milliseconds.
C8_WaitWithinTimeout ==
    (pc = "blocked" /\ timeout.some) =>
        /\ timeout_milliseconds >= 0
        /\ WaitAtMost(timeout_milliseconds, WholeMillis(timeout))

\* C9 as claimed: for every byte sequence b, the empty one included, load
\* after store(b) with no write to the slot in between returns Some of a copy
\* of b.
C9_RoundTripAnyBytes ==
    (loaded # NotCalled /\ stored # NotCalled) => loaded = Some(stored.val)

\* C9 as amended: for every non-empty byte sequence b, load after store(b)
\* with no write to the slot in between returns Some of a byte-for-byte copy
\* of b; after store of the empty sequence it returns None.
C9_RoundTrip ==
    (loaded # NotCalled /\ stored # NotCalled) =>
        IF stored.val = <<>> THEN loaded = None ELSE loaded = Some(stored.val)

C9_Witness ==
    /\ pc = "in_callback"
    /\ event = MainEvent("Resume")
    /\ stored = Some(<<255, 0>>)
    /\ loaded = Some(<<255, 0>>)

StoreBuffers == {a \in Addrs : heap[a].live /\ heap[a].by = "store"}

\* C10: after any sequence of store calls at most one buffer allocated by
\* store is live and it is the one installed in the save-state slot; no buffer
\* is leaked and none is freed twice.
C10_OneLiveBuffer ==
    /\ ~doubleFree
    /\ StoreBuffers \subseteq {savedState}
    /\ savedState # 0 => heap[savedState].live

C10_Witness ==
    /\ storeCalls = 2
    /\ savedState # 0
    /\ StoreBuffers = {savedState}

\* C11: load returns None, without failing, when no buffer is installed in
\* the save-state slot or the recorded length is zero; in every other case it
\* returns Some with exactly the recorded number of bytes.
C11_LoadNoneOrExact ==
    loaded # NotCalled =>
        /\ pc = "in_callback"
        /\ IF savedState = 0 \/ savedStateSize = 0 THEN loaded = None
           ELSE loaded.tag = "Some" /\ Len(loaded.val) = savedStateSize

C11_Witness ==
    /\ pc = "in_callback"
    /\ event = MainEvent("Resume")
    /\ savedState = 0
    /\ stored = NotCalled
    /\ loaded = None

SlotWritten == savedState' # savedState \/ savedStateSize' # savedStateSize \/ heap' # heap

\* C12: the save-state slot is written by store only while the callback of a
\* SaveState command runs, between that command's pre-exec and post-exec
\* hooks, and read by load only while the callback of a Resume command runs;
\* once the callback has returned neither store nor load happens. (The only
\* other writer of the slot is the native layer's post-exec hook.)
C12_SlotScoped ==
    /\ [](storeCalls > 0 =>
            /\ pc \in {"in_callback", "panicked"}
            /\ event = MainEvent("SaveState")
            /\ steps = <<<<"poll", "">>, <<"read", APP_CMD_SAVE_STATE>>,
                         <<"pre", APP_CMD_SAVE_STATE>>, <<"cb", "SaveState">>>>)
    /\ [](loaded # NotCalled =>
            /\ pc = "in_callback"
            /\ event = MainEvent("Resume")
            /\ steps = <<<<"poll", "">>, <<"read", APP_CMD_RESUME>>,
                         <<"pre", APP_CMD_RESUME>>, <<"cb", "Resume">>>>)
    /\ [][SlotWritten =>
            \/ pc = "in_callback" /\ event = MainEvent("SaveState")
            \/ pc = "post_exec"]_vars

C12_Witness ==
    /\ pc = "in_callback"
    /\ event = MainEvent("SaveState")
    /\ storeCalls = 1
    /\ stored = Some(<<0, 255>>)

\* an input_events call is under way, or has panicked
InInput == Len(steps) >= 2 /\ steps[1] = <<"input", "">>
\* what the native layer handed to the call: <<pointer, ...>>
Acquired == steps[2][2]
InputExited == pc \in {"input_ret", "panicked"}

IsCb(x) == x[1] = "cb"
Callbacks == SelectSeq(steps, IsCb)

\* k key events then m motion events, each in index order
ExpectedInput(k, m) ==
    [i \in 1 .. k + m |->
        IF i <= k THEN <<"cb", <<"Key", i - 1>>>> ELSE <<"cb", <<"Motion", i - 1 - k>>>>]

\* C13: GameActivity input_events on a frame of k key events and m motion
\* events invokes the callback k+m times: the key events as Key in index order
\* 0..k-1, then the motion events as Motion in index order 0..m-1, each once.
\* At every point of the call the callbacks made are a prefix of that
\* sequence, and a call that returns has made all of them.
C13_KeysThenMotions ==
    (InInput /\ flavor = "game" /\ Acquired[1] # 0) =>
        LET exp == ExpectedInput(Acquired[2], Acquired[3])
        IN /\ IsPrefix(Callbacks, exp)
           /\ pc = "input_ret" => Callbacks = exp

C13_Witness ==
    /\ pc = "input_ret"
    /\ steps = <<<<"input", "">>, <<"swap", <<1, 3, 0>>>>, <<"cb", <<"Key", 0>>>>,
                 <<"cb", <<"Key", 1>>>>, <<"cb", <<"Key", 2>>>>, <<"clear", "">>>>

\* C14 as claimed: every GameActivity input_events call releases the native
\* event arrays exactly once on scope exit, after the last callback and never
\* before one, however many events were delivered, whether or not the
\* callback was invoked, whether the call returned early and whether the
\* callback panicked.
C14_ReleaseOnEveryCall ==
    (InInput /\ flavor = "game") =>
        /\ InputExited => Count(steps, "clear") = 1 /\ steps[Len(steps)] = <<"clear", "">>
        /\ ~InputExited => Count(steps, "clear") = 0

\* C14 as amended: every GameActivity input_events call that obtained a buffer
\* releases the native event arrays exactly once on scope exit, after the
\* last callback and never before one, however many events were delivered,
\* whether or not the callback was invoked and whether the callback panicked
\* (unwinding); a call that returns early because no buffer is available
\* releases nothing.
C14_ReleaseOncePerFrame ==
    (InInput /\ flavor = "game") =>
        IF Acquired[1] # 0
        THEN /\ InputExited => Count(steps, "clear") = 1 /\ steps[Len(steps)] = <<"clear", "">>
             /\ ~InputExited => Count(steps, "clear") = 0
        ELSE Count(steps, "clear") = 0

C14_Witness ==
    /\ pc = "panicked"
    /\ steps = <<<<"input", "">>, <<"swap", <<1, 2, 1>>>>, <<"cb", <<"Key", 0>>>>,
                 <<"cb", <<"Key", 1>>>>, <<"cb", <<"Motion", 0>>>>, <<"panic", "">>,
                 <<"clear", "">>>>

\* C15: when the native layer has no input buffer (game) or no input queue
\* (native), input_events returns at once: nothing happens after the null
\* test, the callback is not invoked and the call does not fail.
C15_NoBufferNoCallback ==
    (InInput /\ Acquired[1] = 0) => pc = "input_ret" /\ Len(steps) = 2

C15_Witness ==
    /\ pc = "input_ret"
    /\ flavor = "native"
    /\ steps = <<<<"input", "">>, <<"queue", <<0, 0>>>>>>

\* a poll_events call has taken the multiplexer's result and acted on it
Dispatched == steps # <<>> /\ steps[1] = <<"poll", "">> /\ pc \notin {"blocked", "polled"}

\* the flag set an event mask stands for, bit by bit
ExpectedFlags(m) ==
    (IF m % 2 = 1 THEN {"INPUT"} ELSE {})
    \cup (IF (m \div 2) % 2 = 1 THEN {"OUTPUT"} ELSE {})
    \cup (IF (m \div 4) % 2 = 1 THEN {"ERROR"} ELSE {})
    \cup (IF (m \div 8) % 2 = 1 THEN {"HANGUP"} ELSE {})

HasRead == Len(steps) >= 2 /\ steps[1] = <<"poll", "">> /\ steps[2][1] = "read"
CodeRead == steps[2][2]

\* the flavor whose table has the internal-only InputChanged command
InputChangedRead ==
    flavor = "native" /\ HasRead /\ CodeRead = APP_CMD_INPUT_CHANGED

SuppressedSteps ==
    <<<<"poll", "">>, <<"read", APP_CMD_INPUT_CHANGED>>,
      <<"pre", APP_CMD_INPUT_CHANGED>>, <<"post", APP_CMD_INPUT_CHANGED>>>>

\* C17: an InputChanged command read from the main channel never reaches the
\* user callback and never changes the cache; its pre-exec hook and then its
\* post-exec hook are each called once with that code, and poll_events
\* returns normally.
C17_InputChangedSuppressed ==
    /\ [](InputChangedRead =>
            /\ pc \in {"pre_exec", "post_exec", "ret"}
            /\ IsPrefix(steps, SuppressedSteps)
            /\ pc = "post_exec" => Len(steps) = 3
            /\ pc = "ret" => steps = SuppressedSteps)
    /\ [][InputChangedRead => cacheVars' = cacheVars]_vars

C17_Witness ==
    /\ pc = "ret"
    /\ flavor = "native"
    /\ native_window = 2
    /\ steps = SuppressedSteps

\* the codes of each flavor's classification table
InTable(fl, c) ==
    \/ c \in APP_CMD_INIT_WINDOW .. APP_CMD_DESTROY
    \/ fl = "game" /\ c = APP_CMD_WINDOW_INSETS_CHANGED
    \/ fl = "native" /\ c = APP_CMD_INPUT_CHANGED

\* C20: a command code read from the main channel that is not in the
\* flavor's table is fatal where it is detected: poll_events does not return,
\* and no pre-exec hook, callback, cache update or post-exec hook happens for
\* it.
C20_UnknownCodeFatal ==
    (HasRead /\ ~InTable(flavor, CodeRead)) => pc = "panicked" /\ Len(steps) = 2

C20_Witness ==
    /\ pc = "panicked"
    /\ flavor = "game"
    /\ steps = <<<<"poll", "">>, <<"read", 17>>>>
    /\ native_window = 1

\* C18: a thread calling config() or native_window() while poll_events
\* processes ConfigChanged, InitWindow or TerminateWindow gets either the
\* whole value the cache held before the update or the whole value it holds
\* after it, never a mixture, under every interleaving.
C18_ReadersSeeWholeValues ==
    /\ ~raced
    /\ seen # NoRead => seen.val # Torn /\ seen.val \in {seen.before, seen.after}

C18_Witness ==
    /\ pc = "sync"
    /\ cmd = "ConfigChanged"
    /\ config = 1 /\ app_config = 2
    /\ seen = ReadOf("config", 1, 1, 1)

\* the post-exec hook of a TerminateWindow command has run
TerminateDone ==
    /\ pc = "ret"
    /\ HasRead /\ CodeRead = APP_CMD_TERM_WINDOW
    /\ steps[Len(steps)] = <<"post", APP_CMD_TERM_WINDOW>>

\* C19: once the post-exec hook of a TerminateWindow command has run, neither
\* the cache nor a thread that obtained the handle through native_window()
\* earlier still holds a handle to that surface.
C19_NoHandleOutlivesTerminate ==
    /\ TerminateDone => native_window = 0
    /\ ~heldStale

\* the multiplexer has returned the main channel with a null payload and
\* the call has not acted on it yet
NullMainPolled == pc = "polled" /\ id = LOOPER_ID_MAIN /\ source = 0

\* C21: a main-channel result with a null polling-source payload is fatal and
\* is detected before anything else is done: the call has done nothing but
\* poll when the result arrives, and the only thing the control thread does
\* with it is to stop; no command is read, no hook is called (nothing is added
\* to what the call has done, the control block is untouched), the cache is
\* unchanged and the callback is not invoked.
C21_NullSourceFatal ==
    /\ [](NullMainPolled => steps = <<<<"poll", "">>>> /\ event = NoEvent /\ cmd = "")
    /\ [][NullMainPolled =>
            /\ pc' \in {"polled", "panicked"}
            /\ steps' = steps
            /\ cmdVars' = cmdVars
            /\ event' = event
            /\ appVars' = appVars
            /\ cacheVars' = cacheVars]_vars
    /\ []((pc = "panicked" /\ id = LOOPER_ID_MAIN /\ steps = <<<<"poll", "">>>>) => source = 0)

C21_Witness ==
    /\ pc = "panicked"
    /\ id = LOOPER_ID_MAIN
    /\ source = 0
    /\ steps = <<<<"poll", "">>>>
    /\ native_window = 1

\* the multiplexer's result is the callback-source sentinel or a negative
\* code that is none of the wake, timeout and error sentinels
Noise ==
    id < 0 /\ id \notin {ALOOPER_POLL_WAKE, ALOOPER_POLL_TIMEOUT, ALOOPER_POLL_ERROR}

\* C22: on the callback-source sentinel or any negative code other than the
\* wake, timeout and error sentinels poll_events returns normally: the call
\* goes straight to its return having done nothing but poll (no callback, no
\* command read, no hook), and it changes neither the cache, nor the native
\* control block, nor the save-state slot.
C22_NoiseTolerated ==
    /\ []((Dispatched /\ Noise) =>
            /\ pc = "ret"
            /\ steps = <<<<"poll", "">>>>
            /\ event = NoEvent /\ cmd = "")
    /\ [][(pc = "polled" /\ Noise) =>
            /\ pc' \in {"polled", "ret"}
            /\ cacheVars' = cacheVars
            /\ appVars' = appVars
            /\ slotVars' = slotVars
            /\ stored' = stored]_vars
    /\ [][(pc = "ret" /\ Noise /\ pc' # pc) =>
            pc' = "idle" /\ cacheVars' = cacheVars /\ slotVars' = slotVars]_vars

C22_Witness ==
    /\ pc = "ret"
    /\ id = ALOOPER_POLL_CALLBACK
    /\ steps = <<<<"poll", "">>>>
    /\ native_window = 2
    /\ savedState # 0

\* the step in which poll_events, having read a command and called its
\* pre-exec hook, stores into the cache field that command owns
CacheWrite == pc = "write" /\ pc' = "invoke"

\* what a step may do to the cache
CacheFrame ==
    /\ (CacheWrite /\ cmd = "ConfigChanged") =>
            config' = app_config /\ native_window' = native_window
    /\ (CacheWrite /\ cmd = "InitWindow") =>
            native_window' = app_window /\ native_window' # 0 /\ config' = config
    /\ (CacheWrite /\ cmd = "TerminateWindow") =>
            native_window' = 0 /\ config' = config
    /\ ~CacheWrite => cacheVars' = cacheVars

\* C23: the cache changes only inside poll_events while it processes a
\* main-channel command, and only so: ConfigChanged replaces the
\* configuration by the control block's and leaves the surface; InitWindow
\* sets the surface to the control block's window and TerminateWindow clears
\* it, both leaving the configuration; every other step (of any other
\* command or poll outcome, of input_events, store, load and wake) leaves
\* both unchanged.
C23_CacheFrame ==
    /\ [](pc = "write" =>
            /\ HasRead /\ id = LOOPER_ID_MAIN
            /\ cmd \in CacheCommands /\ cmd = TranslateCmd(flavor, CodeRead)
            /\ steps[Len(steps)] = <<"pre", CodeRead>>)
    /\ [][CacheFrame]_vars

C23_Witness ==
    /\ pc = "invoke"
    /\ cmd = "TerminateWindow"
    /\ steps[Len(steps)] = <<"cache", "TerminateWindow">>
    /\ native_window = 0 /\ app_window = 2
    /\ config = 2

\* the multiplexer's result is the NativeActivity input-available channel
InputChannel == flavor = "native" /\ id = LOOPER_ID_INPUT

\* C24: in the NativeActivity flavor a multiplexer result equal to the
\* input-available channel produces no callback at all (no Wake either),
\* reads no command, calls no hook, consumes no input event and leaves the
\* cache unchanged: the call goes straight to its return having done nothing
\* but poll.
C24_InputChannelSilent ==
    /\ []((Dispatched /\ InputChannel) =>
            /\ pc = "ret"
            /\ steps = <<<<"poll", "">>>>
            /\ event = NoEvent /\ cmd = "")
    /\ [][(pc = "polled" /\ InputChannel) =>
            /\ pc' \in {"polled", "ret"}
            /\ steps' = steps
            /\ event' = event
            /\ cacheVars' = cacheVars
            /\ appVars' = appVars
            /\ inputVars' = inputVars]_vars

C24_Witness ==
    /\ pc = "ret"
    /\ flavor = "native"
    /\ id = LOOPER_ID_INPUT
    /\ steps = <<<<"poll", "">>>>
    /\ native_window = 1
    /\ wakePending

\* the hook calls of the poll_events call under way all carry the code c and
\* come after the read
HooksCarry(c) ==
    \A i \in 1 .. Len(steps) :
        steps[i][1] \in {"pre", "post"} => i > 2 /\ steps[i][2] = c

\* C25: for each main-channel result with a non-null payload poll_events
\* reads exactly one command from the control block, before the pre-exec
\* hook, and every hook call of that poll_events call carries the code read
\* (a call that returns has made both); over any sequence of calls the
\* commands are surfaced to the callback in the order they were read: at most
\* one command is in flight, the callback gets the command in flight and gets
\* it once, and no command is left in flight when a call has returned.
C25_OneCommandInOrder ==
    /\ ~misordered
    /\ Len(inFlight) <= 1
    /\ pc = "idle" => inFlight = <<>>
    /\ (Dispatched /\ id = LOOPER_ID_MAIN /\ pc # "panicked") => HasRead
    /\ HasRead =>
          /\ Count(steps, "read") = 1
          /\ Count(steps, "pre") <= 1 /\ Count(steps, "post") <= 1
          /\ HooksCarry(CodeRead)
          /\ pc = "ret" => Count(steps, "pre") = 1 /\ Count(steps, "post") = 1
          /\ IF Count(steps, "post") = 1 THEN inFlight = <<>>
             ELSE /\ Len(inFlight) = 1
                  /\ inFlight[1].code = CodeRead
                  /\ inFlight[1].surfaced =
                        (IF Count(steps, "cb") = 1 THEN TranslateCmd(flavor, CodeRead) ELSE "")
          /\ pc = "in_callback" => event = MainEvent(TranslateCmd(flavor, CodeRead))

C25_Witness ==
    /\ pc = "ret"
    /\ steps = ExpectedSteps(APP_CMD_PAUSE, "Pause")
    /\ inFlight = <<>>
    /\ lastWindowCmd = "TerminateWindow"

\* the Command named after each code, by code: APP_CMD_INIT_WINDOW is code 1
CommandNames ==
    <<"InitWindow", "TerminateWindow", "WindowResized", "RedrawNeeded",
      "ContentRectChanged", "GainedFocus", "LostFocus", "ConfigChanged",
      "LowMemory", "Start", "Resume", "SaveState", "Pause", "Stop", "Destroy",
      "InsetsChanged">>

\* the codes a flavor surfaces
SurfacedCodes(fl) ==
    IF fl = "game" THEN APP_CMD_INIT_WINDOW .. APP_CMD_WINDOW_INSETS_CHANGED
    ELSE APP_CMD_INIT_WINDOW .. APP_CMD_DESTROY

\* the codes of the flavor's table that would surface as the command name
CodesSurfacingAs(fl, name) == {c \in SurfacedCodes(fl) : TranslateCmd(fl, c) = name}

\* C26: the translation is total and injective on the codes the flavor
\* surfaces: a read of the code for InitWindow ... Destroy (and InsetsChanged
\* in the GameActivity flavor) is not fatal and yields the Command of the
\* same name, which is what the callback is given; the command the callback
\* is given comes from no other code of the table; and the NativeActivity
\* flavor never hands InsetsChanged or InputChanged to the callback.
C26_TranslationInjective ==
    /\ (HasRead /\ CodeRead \in SurfacedCodes(flavor)) =>
          /\ cmd = CommandNames[CodeRead]
          /\ ~(pc = "panicked" /\ Len(steps) = 2)
    /\ (pc = "in_callback" /\ event.type = "Main") =>
          /\ CodeRead \in SurfacedCodes(flavor)
          /\ event.cmd = CommandNames[CodeRead]
          /\ CodesSurfacingAs(flavor, event.cmd) = {CodeRead}
          /\ flavor = "native" => event.cmd \notin {"InsetsChanged", "InputChanged", "None"}

C26_Witness ==
    /\ pc = "in_callback"
    /\ flavor = "game"
    /\ event = MainEvent("InsetsChanged")
    /\ HasRead /\ CodeRead = APP_CMD_WINDOW_INSETS_CHANGED

\* what a dispatcher of flavor fl does with the multiplexer's result
DispatchOf(fl) ==
    \/ DispatchSentinelOf(fl)
    \/ IgnoreOf(fl)
    \/ DispatchFdEventOf(fl)
    \/ FdEventPanicOf(fl)
    \/ MainNullSourcePanicOf(fl)
    \/ ReadCmdOf(fl)
    \/ ReadCmdUnreachableOf(fl)

\* the step in which poll_events acts on the multiplexer's result
Deciding == pc = "polled" /\ pc' # "polled"

\* the results on which the tables of the two flavors differ
Excepted ==
    \/ id = LOOPER_ID_INPUT
    \/ HasRead /\ CodeRead \in {APP_CMD_INPUT_CHANGED, APP_CMD_WINDOW_INSETS_CHANGED}

CacheFields == {"config", "window"}

\* C28: poll_events holds neither the configuration lock nor the surface lock
\* while the user callback runs: its write guard is held only between taking
\* it and storing the value, before the callback is invoked. While the
\* callback runs, a call of config() or native_window() by the callback on
\* the control thread can proceed, so can one by an idle reader thread, and a
\* reader that holds a read guard can always finish: none of them waits for
\* a lock that poll_events holds.
C28_NoLockInCallback ==
    /\ wguard # "none" => pc = "write" /\ wguard = FieldOf(cmd)
    /\ pc \in {"invoke", "in_callback", "post_exec"} => wguard = "none"
    /\ pc = "in_callback" => \A f \in CacheFields : ENABLED CallbackRead(f)
    /\ (pc = "in_callback" /\ rd_pc = "idle") => \A f \in CacheFields : ENABLED ReadLock(f)
    /\ rd_pc # "idle" => ENABLED ReadReturn
    /\ cbSeen # NoRead => pc \in {"in_callback", "panicked"} /\ cbSeen.val = Cached(cbSeen.of)

C28_Witness ==
    /\ pc = "in_callback"
    /\ event = MainEvent("InitWindow")
    /\ cbSeen = ReadOf("window", 2, 2, 2)
    /\ rd_pc = "window"

\* the poll_events call under way ended in a panic of the user callback (a
\* failed allocation in store, called by the callback, included)
CallbackPanicked ==
    pc = "panicked" /\ steps # <<>> /\ steps[Len(steps)][1] = "cb"

Balanced == Count(steps, "pre") = Count(steps, "post")

\* the cache holds what the command under way had to put there
CacheUpdated ==
    /\ cmd = "ConfigChanged" => config = app_config
    /\ cmd = "InitWindow" => native_window # 0 /\ native_window = app_window
    /\ cmd = "TerminateWindow" => native_window = 0

\* C29 as claimed: every pre-exec hook call is followed, before the
\* poll_events call ends, by exactly one post-exec hook call with the same
\* code, unless the user callback panics: a call that has ended without a
\* panic of the callback has as many post-exec as pre-exec calls.
C29_BalancedUnlessCallbackPanics ==
    (pc \in {"ret", "panicked"} /\ ~CallbackPanicked) => Balanced

\* C29 as amended: a poll_events call makes at most one pre-exec and one
\* post-exec hook call, both with the code read, the post-exec after the
\* pre-exec; a call that returns has made both or neither. A call that
\* panics after its pre-exec hook makes no post-exec call: either the
\* callback panicked while handling the command, and the cache update
\* already made for it stays in effect, or an InitWindow command found a
\* null window before the callback, and no cache update was made.
C29_BalancedUnlessPanic ==
    /\ Count(steps, "post") <= Count(steps, "pre") /\ Count(steps, "pre") <= 1
    /\ Count(steps, "pre") = 1 => HasRead /\ HooksCarry(CodeRead)
    /\ pc = "ret" => Balanced
    /\ (pc = "panicked" /\ Count(steps, "pre") = 1) =>
          /\ Count(steps, "post") = 0
          /\ IF CallbackPanicked
             THEN /\ steps[Len(steps)] = <<"cb", cmd>>
                  /\ CacheUpdated
                  /\ Count(steps, "cache") = (IF cmd \in CacheCommands THEN 1 ELSE 0)
             ELSE /\ steps[Len(steps)] = <<"pre", APP_CMD_INIT_WINDOW>>
                  /\ app_window = 0
                  /\ Count(steps, "cache") = 0

C29_Witness ==
    /\ pc = "panicked"
    /\ steps = <<<<"poll", "">>, <<"read", APP_CMD_TERM_WINDOW>>,
                 <<"pre", APP_CMD_TERM_WINDOW>>, <<"cache", "TerminateWindow">>,
                 <<"cb", "TerminateWindow">>>>
    /\ storeCalls = 0
    /\ native_window = 0 /\ app_window = 1

LiveCells == {a \in Addrs : heap[a].live}

\* a store call of the running SaveState callback has aborted on a failed
\* allocation (the callback itself does not panic in this specification)
StoreAborted == CallbackPanicked /\ event = MainEvent("SaveState")

\* C30: outside store the save-state slot is consistent: a null pointer goes
\* with a recorded size of zero; a non-null pointer points to live memory, and
\* when store installed it the recorded size is the length of the bytes last
\* stored, which the buffer holds. When store aborts on allocation failure
\* the slot is empty (null, size 0) and the previous buffer is released:
\* nothing is left allocated, and the slot does not point to freed memory.
C30_SlotConsistent ==
    /\ savedState = 0 => savedStateSize = 0
    /\ savedState # 0 =>
          /\ heap[savedState].live
          /\ savedStateSize = Len(heap[savedState].data)
          /\ heap[savedState].by = "store" =>
                /\ stored.tag = "Some"
                /\ savedStateSize = Len(stored.val)
                /\ heap[savedState].data = stored.val
    /\ StoreAborted =>
          /\ savedState = 0 /\ savedStateSize = 0
          /\ LiveCells = {}
          /\ ~doubleFree

C30_Witness ==
    /\ StoreAborted
    /\ storeCalls = 1
    /\ savedState = 0 /\ savedStateSize = 0
    /\ LiveCells = {}

NullInitSteps ==
    <<<<"poll", "">>, <<"read", APP_CMD_INIT_WINDOW>>, <<"pre", APP_CMD_INIT_WINDOW>>>>

\* the pre-exec hook of an InitWindow command has run and the control
\* block's window is null
NullInitWindow == pc = "sync" /\ cmd = "InitWindow" /\ app_window = 0

\* C31: an InitWindow command whose window is still null after the pre-exec
\* hook is fatal: the only thing the control thread does then is to panic,
\* after the pre-exec hook and with neither the callback invoked nor the
\* post-exec hook called; the step changes nothing in the cache, so the
\* cached surface keeps the value it had; and an InitWindow callback never
\* runs without a window.
C31_NullWindowFatal ==
    /\ [](NullInitWindow => steps = NullInitSteps /\ wguard = "none")
    /\ [][NullInitWindow =>
            /\ pc' \in {"sync", "panicked"}
            /\ steps' = steps
            /\ event' = event
            /\ cacheVars' = cacheVars
            /\ wguard' = wguard]_vars
    /\ []((pc = "panicked" /\ steps = NullInitSteps) => app_window = 0)
    /\ []((steps # <<>> /\ steps[Len(steps)] = <<"cb", "InitWindow">>) =>
            app_window # 0 /\ native_window = app_window)

C31_Witness ==
    /\ pc = "panicked"
    /\ steps = NullInitSteps
    /\ app_window = 0
    /\ native_window = 1
    /\ lastWindowCmd = "InitWindow"

\* a NativeActivity input_events call that found an input queue is under way
NativeInput == InInput /\ flavor = "native" /\ Acquired[1] # 0

\* entries for events taken from the queue, and for events this call is done
\* with (kept by pre-dispatch, or finished)
IsTaken(x) == x[1] \in {"cb", "predispatched"}
IsRemoved(x) == x[1] \in {"predispatched", "finish"}
EventOf(x) == IF x[1] = "finish" THEN x[2][1] ELSE x[2]

\* what has to surround entry j of the trace of a NativeActivity input_events
EntryInTurn(j) ==
    /\ steps[j][1] = "cb" =>
          IF j = Len(steps)
          THEN pc \in {"queue_cb", "finish"} /\ Head(queue) = steps[j][2]
          ELSE \/ steps[j + 1][1] = "panic"
               \/ /\ steps[j + 1][1] = "finish"
                  /\ steps[j + 1][2] = <<steps[j][2], TRUE>>
    /\ steps[j][1] = "finish" =>
          steps[j - 1][1] = "cb" /\ steps[j - 1][2] = steps[j][2][1]
    /\ steps[j][1] = "predispatched" =>
          (j < Len(steps) => steps[j + 1][1] \in {"cb", "predispatched"})

\* C32: NativeActivity input_events handles the queue one event at a time in
\* queue order: the events taken are the first, second, ... to have arrived,
\* none twice; an event pre-dispatch keeps is neither delivered nor
\* finished; any other is delivered to the callback once and, when the
\* callback has returned, finished once with handled = true before the next
\* event is taken; nothing is finished that was not just delivered; and a
\* call that returns has left no event in the queue.
C32_QueueOrder ==
    NativeInput =>
        LET taken == SelectSeq(steps, IsTaken)
            removed == SelectSeq(steps, IsRemoved)
        IN /\ \A i \in 1 .. Len(taken) : taken[i][2][2] = i
           /\ \A i \in 1 .. Len(removed) : EventOf(removed[i])[2] = i
           /\ \A i \in 1 .. Len(queue) : queue[i][2] = Len(removed) + i
           /\ Len(taken) - Len(removed) \in {0, 1}
           /\ \A j \in 3 .. Len(steps) : EntryInTurn(j)
           /\ pc = "input_ret" => queue = <<>> /\ Len(taken) = Len(removed)

C32_Witness ==
    /\ pc = "input_ret"
    /\ flavor = "native"
    /\ steps = <<<<"input", "">>, <<"queue", <<1, 1>>>>, <<"predispatched", <<"Key", 1>>>>,
                 <<"cb", <<"Motion", 2>>>>, <<"finish", <<<<"Motion", 2>>, TRUE>>>>>>

\* a GameActivity input_events call that was handed a frame is under way
GameInput == InInput /\ flavor = "game" /\ Acquired[1] # 0

\* the key sequence, and the motion sequence, of a frame is being run through
InKeys == pc \in {"keys", "key_cb"}
InMotions == pc \in {"motions", "motion_cb"}

\* the count of a sequence stays what it was read as while the sequence runs
CountFixed ==
    ((InKeys /\ InKeys') \/ (InMotions /\ InMotions')) => count' = count

\* from an empty queue the loop of the NativeActivity flavor goes nowhere but
\* to the return
EmptyQueueLeaves ==
    (pc = "get" /\ queue = <<>> /\ pc' # pc) => pc' = "input_ret"

\* C33: input_events terminates whenever the callback terminates. GameActivity:
\* each sequence runs to the count read when it starts (keyEventsCount, then
\* motionEventsCount), so a call that was handed a frame returns after exactly
\* keyEventsCount + motionEventsCount callbacks. NativeActivity: with the
\* queue empty the loop can end at once, whether or not input is still to
\* arrive, and ends nowhere else. Every call that is started reaches its
\* return, or the panic of its callback.
C33_InputTerminates ==
    /\ [](GameInput /\ InKeys => count = Acquired[2])
    /\ [](GameInput /\ InMotions => count = Acquired[3])
    /\ [][CountFixed]_vars
    /\ [](GameInput => Count(steps, "cb") <= Acquired[2] + Acquired[3])
    /\ [](GameInput /\ pc \in {"drop", "input_ret"} =>
            Count(steps, "cb") = Acquired[2] + Acquired[3])
    /\ [](pc = "get" /\ queue = <<>> => ENABLED QueueDrained)
    /\ [][EmptyQueueLeaves]_vars
    /\ (pc = "acquire") ~> (pc \in {"input_ret", "panicked"})

C33_Witness ==
    /\ NativeInput
    /\ pc = "input_ret"
    /\ Acquired = <<1, 0>>
    /\ NextArrival <= MaxQueued
    /\ Count(steps, "cb") = 0

====
